---------------------------- MODULE Spec2Model ----------------------------
(***************************************************************************)
(* Shelly 3EM -> Fronius Modbus bridge: src/shelly_master.py and, in its   *)
(* own section below, the asyncio variant src/3EMFroniusMeter.py.  A       *)
(* behaviour runs one of the two programs, chosen in Init.                 *)
(*                                                                         *)
(* For shelly_master.py the model follows its three threads of control:    *)
(*   - the main thread (main: startup fetch, header initialisation, first  *)
(*     apply, start of the poller thread, start of the Modbus server),     *)
(*   - the poller thread (update_meter_data), and                          *)
(*   - the Modbus server, which answers one request at a time through the  *)
(*     data block's validate/getValues/setValues interface.                *)
(* Register cells are read and written one at a time, as the loops of      *)
(* getValues and setValues do, so that every interleaving of the poller    *)
(* with a request in progress is a behaviour of the model.                 *)
(*                                                                         *)
(* Numbers are exact rationals <<n, d>> (d > 0, lowest terms); the float32 *)
(* packing of set_float32 is computed bit by bit from them.                *)
(***************************************************************************)
EXTENDS Integers, Sequences, FiniteSets, TLC

(***************************************************************************)
(* Rational arithmetic: the values of the telemetry snapshot and of the    *)
(* quantities update_registers_from_shelly derives from it.                *)
(***************************************************************************)
RECURSIVE Gcd(_, _)
Gcd(a, b) == IF b = 0 THEN a ELSE Gcd(b, a % b)

IAbs(x) == IF x < 0 THEN -x ELSE x

Rat(n, d) ==
    LET g == Gcd(IAbs(n), d)
    IN  IF n = 0 THEN <<0, 1>> ELSE <<n \div g, d \div g>>

RInt(n) == <<n, 1>>

RAdd(x, y) == Rat(x[1] * y[2] + y[1] * x[2], x[2] * y[2])

RSub(x, y) == Rat(x[1] * y[2] - y[1] * x[2], x[2] * y[2])

RMul(x, y) == Rat(x[1] * y[1], x[2] * y[2])

RDivInt(x, k) == Rat(x[1], x[2] * k)

RAbs(x) == <<IAbs(x[1]), x[2]>>

RGtZero(x) == x[1] > 0

RLtZero(x) == x[1] < 0

RMax0(x) == IF x[1] < 0 THEN <<0, 1>> ELSE x

\* Integer square root: the largest r with r * r <= n, by bisection on
\* lo * lo <= n < hi * hi.
RECURSIVE ISqrtIn(_, _, _)
ISqrtIn(n, lo, hi) ==
    IF hi - lo <= 1 THEN lo
    ELSE LET mid == (lo + hi) \div 2
         IN  IF mid * mid <= n THEN ISqrtIn(n, mid, hi) ELSE ISqrtIn(n, lo, mid)

ISqrt(n) == ISqrtIn(n, 0, 46341)

IsSquare(n) == ISqrt(n) * ISqrt(n) = n

\* math.sqrt on the rationals whose root is rational (the snapshots of
\* this model are chosen so that every radicand is one).
RSqrt(x) == <<ISqrt(x[1]), ISqrt(x[2])>>

(***************************************************************************)
(* struct.pack('>f', float(val)) followed by struct.unpack('>HH', ...):    *)
(* the IEEE-754 binary32 image of a rational, round to nearest, ties to    *)
(* even, as the pair <<high word, low word>>.                              *)
(***************************************************************************)
\* The exponent of p/q >= 1: the largest e with q * 2^e <= p.
RECURSIVE ExpUp(_, _)
ExpUp(p, q) == IF p >= 2 * q THEN 1 + ExpUp(p, 2 * q) ELSE 0

\* The exponent of p/q < 1, negated: the least k with p * 2^k >= q.
RECURSIVE ExpDown(_, _)
ExpDown(p, q) == IF p < q THEN 1 + ExpDown(2 * p, q) ELSE 0

RECURSIVE Pow2(_)
Pow2(k) == IF k = 0 THEN 1 ELSE 2 * Pow2(k - 1)

\* Long division of r/q (0 <= r < q) into `bits` more mantissa bits after
\* the mantissa m; returns <<mantissa, remainder>>.
RECURSIVE MantBits(_, _, _, _)
MantBits(r, q, m, bits) ==
    IF bits = 0 THEN <<m, r>>
    ELSE IF 2 * r >= q THEN MantBits(2 * r - q, q, 2 * m + 1, bits - 1)
         ELSE MantBits(2 * r, q, 2 * m, bits - 1)

\* The 24-bit mantissa of P/Q in [1, 2), rounded to nearest, ties to even
\* (16777216 when the rounding carries into the next binade).
Mant24(P, Q) ==
    LET mr == MantBits(P - Q, Q, 1, 23)
        m  == mr[1]
        r  == mr[2]
    IN  IF 2 * r > Q \/ (2 * r = Q /\ m % 2 = 1) THEN m + 1 ELSE m

Float32Words(val) ==
    LET p    == IAbs(val[1])
        q    == val[2]
        sign == IF val[1] < 0 THEN 32768 ELSE 0
        up   == p >= q
        e0   == IF up THEN ExpUp(p, q) ELSE -ExpDown(p, q)
        P    == IF up THEN p ELSE p * Pow2(-e0)
        Q    == IF up THEN q * Pow2(e0) ELSE q
        m0   == Mant24(P, Q)
        e    == IF m0 = 16777216 THEN e0 + 1 ELSE e0
        frac == IF m0 = 16777216 THEN 0 ELSE m0 - 8388608
    IN  IF p = 0 THEN <<0, 0>>
        ELSE <<sign + (e + 127) * 128 + frac \div 65536, frac % 65536>>

(***************************************************************************)
(* Program constants.                                                      *)
(***************************************************************************)
\* len(self.values)
VALUES_LEN == 60000

\* self.address_offset
ADDRESS_OFFSET == 1

\* "if failures >= 10"
FAIL_THRESHOLD == 10

\* The number of set_float32 calls of update_registers_from_shelly.
NFIELDS == 33

\* ModbusSequentialDataBlock(0, [0] * 200)
EM_BLOCK_LEN == 200

(***************************************************************************)
(* Bounds of the model.                                                    *)
(***************************************************************************)
\* The longest run of consecutive failed fetches that is explored.
MaxFailRun == 21

(***************************************************************************)
(* The telemetry snapshot: the keys of the dict get_shelly_data returns.   *)
(***************************************************************************)
PfKeys == {"a_pf", "b_pf", "c_pf"}

FreqKeys == {"a_freq", "b_freq", "c_freq"}

\* The keys read from the emdata:{id} object (total_act, total_act_ret).
EmdataKeys == {"total_act_energy", "total_act_ret_energy"}

Keys ==
    {"total_act_power", "total_aprt_power", "a_act_power", "b_act_power",
     "c_act_power", "a_aprt_power", "b_aprt_power", "c_aprt_power",
     "a_voltage", "b_voltage", "c_voltage", "a_current", "b_current",
     "c_current", "total_current"} \cup FreqKeys \cup PfKeys \cup EmdataKeys

\* The second argument of each .get(key, default) of get_shelly_data.
Default(k) ==
    IF k \in PfKeys THEN RInt(1)
    ELSE IF k \in FreqKeys THEN RInt(50) ELSE RInt(0)

\* Two bodies the meter can answer with: SnapA while importing, SnapB while
\* exporting (with an apparent power below the active power, as a noisy
\* reading gives, and a negative current).
SnapA ==
    [total_act_power |-> <<1000, 1>>, total_aprt_power |-> <<1250, 1>>,
     a_act_power |-> <<300, 1>>, b_act_power |-> <<300, 1>>,
     c_act_power |-> <<400, 1>>, a_aprt_power |-> <<500, 1>>,
     b_aprt_power |-> <<500, 1>>, c_aprt_power |-> <<500, 1>>,
     a_voltage |-> <<230, 1>>, b_voltage |-> <<231, 1>>,
     c_voltage |-> <<229, 1>>, a_current |-> <<5, 2>>,
     b_current |-> <<5, 2>>, c_current |-> <<2, 1>>,
     total_current |-> <<7, 1>>, a_freq |-> <<50, 1>>,
     b_freq |-> <<50, 1>>, c_freq |-> <<50, 1>>, a_pf |-> <<9, 10>>,
     b_pf |-> <<9, 10>>, c_pf |-> <<9, 10>>,
     total_act_energy |-> <<1000000, 1>>,
     total_act_ret_energy |-> <<2500, 1>>]

SnapB ==
    [total_act_power |-> <<-2469, 2>>, total_aprt_power |-> <<300, 1>>,
     a_act_power |-> <<-500, 1>>, b_act_power |-> <<-400, 1>>,
     c_act_power |-> <<-669, 2>>, a_aprt_power |-> <<300, 1>>,
     b_aprt_power |-> <<500, 1>>, c_aprt_power |-> <<669, 2>>,
     a_voltage |-> <<231, 1>>, b_voltage |-> <<232, 1>>,
     c_voltage |-> <<232, 1>>, a_current |-> <<-3, 1>>,
     b_current |-> <<-2, 1>>, c_current |-> <<-3, 2>>,
     total_current |-> <<-13, 2>>, a_freq |-> <<50, 1>>,
     b_freq |-> <<50, 1>>, c_freq |-> <<499, 10>>, a_pf |-> <<4, 5>>,
     b_pf |-> <<1, 1>>, c_pf |-> <<19, 20>>,
     total_act_energy |-> <<1000000, 1>>,
     total_act_ret_energy |-> <<3461821, 1>>]

\* A body whose powers are outside the signed 16-bit range and whose import
\* counter is a finite number above the largest float32 (such as 1e39); the
\* counter is named by Huge, its entry here is never read.
SnapH ==
    [SnapA EXCEPT !.total_act_power = <<40000, 1>>,
                  !.total_aprt_power = <<40000, 1>>]

\* SnapA with no net power flowing.
SnapZero == [SnapA EXCEPT !.total_act_power = <<0, 1>>]

Body(base) ==
    IF base = "A" THEN SnapA
    ELSE IF base = "H" THEN SnapH
    ELSE IF base = "Z" THEN SnapZero ELSE SnapB

\* The keys of a body whose value struct.pack('>f', ...) cannot represent.
Huge(base) == IF base = "H" THEN {"total_act_energy"} ELSE {}

(***************************************************************************)
(* The answers of the meter to GET /rpc/Shelly.GetStatus.                  *)
(*   status  "error": requests.get, raise_for_status or response.json      *)
(*           raised (network error, timeout, non-200, unparsable body);    *)
(*   em      the body has the em:{id} key;                                 *)
(*   emdata  the body has the emdata:{id} key;                             *)
(*   missing the keys the em / emdata objects lack;                        *)
(*   null    the keys whose value is JSON null (not a number).             *)
(***************************************************************************)
Response(status, em, emdata, base, missing, null) ==
    [status |-> status, em |-> em, emdata |-> emdata, base |-> base,
     missing |-> missing, null |-> null]

RespError == Response("error", FALSE, FALSE, "A", {}, {})

RespNoEm == Response("ok", FALSE, TRUE, "A", {}, {})

RespA == Response("ok", TRUE, TRUE, "A", {}, {})

RespB == Response("ok", TRUE, TRUE, "B", {}, {})

\* Phase C is not reported and there is no emdata object.
RespMissing ==
    Response("ok", TRUE, FALSE, "A",
             {"c_act_power", "c_aprt_power", "c_voltage", "c_current",
              "c_freq", "c_pf"}, {})

RespNullVoltage == Response("ok", TRUE, TRUE, "B", {}, {"b_voltage"})

RespNullCurrent == Response("ok", TRUE, TRUE, "B", {}, {"a_current"})

RespNullEnergy == Response("ok", TRUE, TRUE, "B", {}, {"total_act_energy"})

RespOutOfRange == Response("ok", TRUE, TRUE, "H", {}, {})

RespZero == Response("ok", TRUE, TRUE, "Z", {}, {})

Responses ==
    {RespError, RespNoEm, RespA, RespB, RespMissing, RespNullVoltage,
     RespNullCurrent, RespNullEnergy}

\* The answers update_registers_from_shelly is run on by itself.
ApplyResponses ==
    {RespA, RespB, RespZero, RespOutOfRange, RespMissing, RespNullEnergy}

\* The answers the updating task of 3EMFroniusMeter.py is run on.
EmResponses == Responses \cup {RespOutOfRange}

\* No request has been answered yet.
RespNone == Response("none", FALSE, FALSE, "A", {}, {})

(***************************************************************************)
(* get_shelly_data: None, or the dict of the 23 quantities with the        *)
(* defaults in the place of the keys the body lacks.                       *)
(***************************************************************************)
NoData == [none |-> TRUE, v |-> <<>>, null |-> {}, huge |-> {}]

Absent(r, k) == k \in r.missing \/ (k \in EmdataKeys /\ ~r.emdata)

GetShellyData(r) ==
    IF r.status # "ok" \/ ~r.em THEN NoData
    ELSE [none |-> FALSE,
          v    |-> [k \in Keys |->
                      IF Absent(r, k) THEN Default(k) ELSE Body(r.base)[k]],
          null |-> {k \in r.null : ~Absent(r, k)},
          huge |-> {k \in Huge(r.base) : ~Absent(r, k)}]

(***************************************************************************)
(* update_registers_from_shelly: the derived quantities (lines 225-239)    *)
(* and the 33 calls of set_float32 (lines 242-301), in program order.      *)
(***************************************************************************)
Mean3(x, y, z) == RDivInt(RAdd(RAdd(x, y), z), 3)

AvgFreq(d) == Mean3(d.a_freq, d.b_freq, d.c_freq)

AvgVoltage(d) == Mean3(d.a_voltage, d.b_voltage, d.c_voltage)

\* A sign that treats a total active power of 0 as an import.
PfSignAtZero(d) == IF RLtZero(d.total_act_power) THEN 1 ELSE -1

\* sign = -1 if data['total_act_power'] > 0 else 1
PfSign(d) == IF RGtZero(d.total_act_power) THEN -1 ELSE 1

SignedPf(d, k) == RMul(d[k], RInt(PfSign(d)))

AvgPf(d) == Mean3(SignedPf(d, "a_pf"), SignedPf(d, "b_pf"), SignedPf(d, "c_pf"))

\* A reactive power that takes the magnitude of S**2 - P**2 instead of
\* flooring it at 0.
ReactiveOfMagnitude(S, P) == RSqrt(RAbs(RSub(RMul(S, S), RMul(P, P))))

\* math.sqrt(max(0, S**2 - P**2))
Reactive(S, P) == RSqrt(RMax0(RSub(RMul(S, S), RMul(P, P))))

\* x * 1.732
LineToLine(x) == RMul(x, <<433, 250>>)

\* The keys lines 225-239 read: a null among them raises before any write.
DeriveReads ==
    FreqKeys \cup PfKeys \cup
    {"a_voltage", "b_voltage", "c_voltage", "total_act_power",
     "total_aprt_power", "a_act_power", "b_act_power", "c_act_power",
     "a_aprt_power", "b_aprt_power", "c_aprt_power"}

\* The register address of the k-th set_float32 call.
FieldAddr(k) ==
    CASE k <= 29 -> 40072 + 2 * (k - 1)
      [] k = 30  -> 40130
      [] k = 31  -> 40138
      [] k = 32  -> 40146
      [] k = 33  -> 40154

\* The keys of data the argument expression of the k-th call reads itself
\* (abs(data[..]), float(data[..]), data[..] * 1.732, data[..]).
FieldReads(k) ==
    CASE k = 1  -> {"total_current"}
      [] k = 2  -> {"a_current"}
      [] k = 3  -> {"b_current"}
      [] k = 4  -> {"c_current"}
      [] k \in {6, 10}  -> {"a_voltage"}
      [] k \in {7, 11}  -> {"b_voltage"}
      [] k \in {8, 12}  -> {"c_voltage"}
      [] k = 14 -> {"total_act_power"}
      [] k = 15 -> {"a_act_power"}
      [] k = 16 -> {"b_act_power"}
      [] k = 17 -> {"c_act_power"}
      [] k = 18 -> {"total_aprt_power"}
      [] k = 19 -> {"a_aprt_power"}
      [] k = 20 -> {"b_aprt_power"}
      [] k = 21 -> {"c_aprt_power"}
      [] k \in {30, 32} -> {"total_act_ret_energy"}
      [] k \in {31, 33} -> {"total_act_energy"}
      [] OTHER -> {}

\* The value the k-th call packs.
FieldVal(k, d) ==
    CASE k = 1  -> RAbs(d.total_current)
      [] k = 2  -> RAbs(d.a_current)
      [] k = 3  -> RAbs(d.b_current)
      [] k = 4  -> RAbs(d.c_current)
      [] k = 5  -> AvgVoltage(d)
      [] k = 6  -> d.a_voltage
      [] k = 7  -> d.b_voltage
      [] k = 8  -> d.c_voltage
      [] k = 9  -> LineToLine(AvgVoltage(d))
      [] k = 10 -> LineToLine(d.a_voltage)
      [] k = 11 -> LineToLine(d.b_voltage)
      [] k = 12 -> LineToLine(d.c_voltage)
      [] k = 13 -> AvgFreq(d)
      [] k = 14 -> d.total_act_power
      [] k = 15 -> d.a_act_power
      [] k = 16 -> d.b_act_power
      [] k = 17 -> d.c_act_power
      [] k = 18 -> RAbs(d.total_aprt_power)
      [] k = 19 -> RAbs(d.a_aprt_power)
      [] k = 20 -> RAbs(d.b_aprt_power)
      [] k = 21 -> RAbs(d.c_aprt_power)
      [] k = 22 -> Reactive(d.total_aprt_power, d.total_act_power)
      [] k = 23 -> Reactive(d.a_aprt_power, d.a_act_power)
      [] k = 24 -> Reactive(d.b_aprt_power, d.b_act_power)
      [] k = 25 -> Reactive(d.c_aprt_power, d.c_act_power)
      [] k = 26 -> AvgPf(d)
      [] k = 27 -> SignedPf(d, "a_pf")
      [] k = 28 -> SignedPf(d, "b_pf")
      [] k = 29 -> SignedPf(d, "c_pf")
      [] k = 30 -> d.total_act_ret_energy
      [] k = 31 -> d.total_act_energy
      [] k = 32 -> d.total_act_ret_energy
      [] k = 33 -> d.total_act_energy

\* The keys the startup log lines of main format (lines 369-382).
LogReads ==
    {"total_act_power", "a_act_power", "a_voltage", "b_act_power",
     "b_voltage", "c_act_power", "c_voltage", "total_act_energy",
     "total_act_ret_energy"}

(***************************************************************************)
(* SharedModbusDataBlock.  values is kept on the cells some input of the   *)
(* model can write; every other cell of the 60000 holds its initial 0.     *)
(***************************************************************************)
CellIdx ==
    (0 .. 4) \cup (40000 .. 40130)
        \cup {40137, 40138, 40145, 40146, 40153, 40154}
        \cup ((VALUES_LEN - 5) .. (VALUES_LEN - 1))

\* idx = address + i - self.address_offset
Index(address, i) == address + i - ADDRESS_OFFSET

\* "if idx < len(self.values)"
InRangeNoLower(idx) == idx < VALUES_LEN

\* 0 <= idx < len(self.values)
InRange(idx) == 0 <= idx /\ idx < VALUES_LEN

\* self.values[idx] of a Python list: a negative idx counts from the end,
\* and an idx outside -len .. len - 1 raises IndexError.
ListRaises(idx) == idx < -VALUES_LEN \/ idx >= VALUES_LEN

ListPos(idx) == IF idx < 0 THEN idx + VALUES_LEN ELSE idx

ListGet(v, idx) == IF ListPos(idx) \in DOMAIN v THEN v[ListPos(idx)] ELSE 0

ListSet(v, idx, value) == [v EXCEPT ![ListPos(idx)] = value]

\* A getValues that leaves address_offset out: idx = address + i
GetCellNoOffset(v, address, i) ==
    IF InRange(address + i) THEN ListGet(v, address + i) ELSE 0

\* One turn of the loop of getValues: the value appended to result.
GetCell(v, address, i) ==
    LET idx == Index(address, i)
    IN  IF InRange(idx) THEN ListGet(v, idx) ELSE 0

\* One turn of the loop of setValues.
SetCell(v, address, i, value) ==
    LET idx == Index(address, i)
    IN  IF InRange(idx) THEN ListSet(v, idx, value) ELSE v

\* The turn of index i of either loop raises IndexError.
CellRaises(address, i) ==
    InRange(Index(address, i)) /\ ListRaises(Index(address, i))

\* setValues(address, vals): the loop as a whole.  Turn i (from 0) writes
\* vals[i + 1] to the cell Index(address, i) when that cell is in range.
SetValues(v, address, vals) ==
    [idx \in DOMAIN v |->
        LET i == idx - Index(address, 0)
        IN  IF 0 <= i /\ i < Len(vals) /\ InRange(idx)
            THEN vals[i + 1] ELSE v[idx]]

\* getValues(address, count)
GetValues(v, address, count) == [i \in 1 .. count |-> GetCell(v, address, i - 1)]

Zeros(n) == [i \in 1 .. n |-> 0]

\* The setValues calls of initialize_sunspec_registers, in program order.
HeaderWrites ==
    << <<40001, <<21365, 28243>>>>,
       <<40003, <<1, 65>>>>,
       <<40005, Zeros(64)>>,
       <<40005, <<27753, 28277, 30765, 29539, 29289, 28788>>>>,
       <<40021, <<21352, 25964, 27769, 11618, 29289, 25703, 25888>>>>,
       <<40037, Zeros(8)>>,
       <<40045, <<12848, 12854, 12338, 12592, 11569, 12848, 12333, 12336,
                  12544>>>>,
       <<40053, <<14392, 12595, 16966, 17989, 16696, 13379>>>>,
       <<40069, <<65535>>>>,
       <<40070, <<213, 124>>>> >>

RECURSIVE ApplyWrites(_, _, _)
ApplyWrites(v, writes, from) ==
    IF from > Len(writes) THEN v
    ELSE ApplyWrites(SetValues(v, writes[from][1], writes[from][2]),
                     writes, from + 1)

\* A main that does not call initialize_sunspec_registers.
HeaderSkipped(v) == v

InitializeSunspecRegisters(v) == ApplyWrites(v, HeaderWrites, 1)

(***************************************************************************)
(* State.                                                                  *)
(*   mainPc    where the main thread is: "start" (the startup fetch of     *)
(*             line 364), "log" (lines 369-383), "init", "initw", "initr"  *)
(*             (initialize_sunspec_registers: before, inside and leaving   *)
(*             its with-block), "apply" (line 386), "spawn" (line 388),    *)
(*             "sleep" (line 391), "serving" (StartTcpServer), "exited"    *)
(*             (sys.exit(1)) or "crashed" (an uncaught exception);         *)
(*   pollPc    where the poller thread is: "off" (not started), "idle"     *)
(*             (between two cycles), "fetch" (inside get_shelly_data) or   *)
(*             "apply" (inside update_registers_from_shelly);              *)
(*   lock      the holder of hr_lock, or "free";                           *)
(*   values    shared_datablock.values;                                    *)
(*   data      the dict get_shelly_data returned last (test_data, data);   *)
(*   applyK    the set_float32 call update_registers_from_shelly is at     *)
(*             (0: the derivations of lines 225-239; NFIELDS + 1: past     *)
(*             the last call);                                             *)
(*   sf        the set_float32 call in progress: its address, the packed   *)
(*             registers, the turn i of the loop of setValues, and the     *)
(*             pair the registers held when the lock was taken;            *)
(*   failures  the local of update_meter_data;                             *)
(*   srv       the request the Modbus server is handling.                  *)
(* History:                                                                *)
(*   resp      the answer of the meter to the last request of the thread   *)
(*             that is running (main until it starts the poller, the       *)
(*             poller from then on; "none" before its first answer);       *)
(*   runFails  the number of failed fetches since the last success;        *)
(*   runAlerts the number of "10 consecutive failures" lines logged since  *)
(*             the last success;                                           *)
(*   recovered the fetch that has just returned succeeded after at least   *)
(*             one failed cycle (until the apply step begins);             *)
(*   written   the addresses set_float32 has written since that thread's   *)
(*             current fetch began.                                        *)
(***************************************************************************)
VARIABLES mainPc, pollPc, lock, values, data, applyK, sf, failures, srv,
          resp, runFails, runAlerts, recovered, written

vars == <<mainPc, pollPc, lock, values, data, applyK, sf, failures, srv,
          resp, runFails, runAlerts, recovered, written>>

SfOut == [in |-> FALSE, addr |-> 0, regs |-> <<0, 0>>, i |-> 0,
          old |-> <<0, 0>>]

\* srv.from: for each word of res, the value of the register pair at
\* srv.addr that the word belongs to (history); srv.quiet: the poller has
\* been inside one get_shelly_data call since the read began (history).
SrvIdle == [pc |-> "idle", addr |-> 0, count |-> 0, vals |-> <<>>, i |-> 0,
            res |-> <<>>, from |-> <<>>, quiet |-> FALSE]

\* The requests of Modbus clients: read holding registers (address, count)
\* and write registers (address, values).
ReadRequests == {<<40098, 2>>}

WriteRequests == {<<40098, <<4660>>>>}

\* Either program is started: shelly_master.py with shared_datablock as
\* line 88 creates it, 3EMFroniusMeter.py with the block of line 59.
Init ==
    /\ mainPc \in {"start", "em_start"}
    /\ pollPc = "off"
    /\ lock = "free"
    /\ values = IF mainPc = "start" THEN [idx \in CellIdx |-> 0]
                ELSE [idx \in 0 .. (EM_BLOCK_LEN - 1) |-> 0]
    /\ data = NoData
    /\ applyK = 0
    /\ sf = SfOut
    /\ failures = 0
    /\ srv = SrvIdle
    /\ resp = RespNone
    /\ runFails = 0
    /\ runAlerts = 0
    /\ recovered = FALSE
    /\ written = {}

(***************************************************************************)
(* main, up to the start of the server.                                    *)
(***************************************************************************)
\* test_data = get_shelly_data(); if test_data is None: sys.exit(1)
MainStartupFetch(r) ==
    /\ mainPc = "start"
    /\ resp' = r
    /\ data' = GetShellyData(r)
    /\ mainPc' = IF GetShellyData(r).none THEN "exited" ELSE "log"
    /\ UNCHANGED <<pollPc, lock, values, applyK, sf, failures, srv, runFails,
                   runAlerts, recovered, written>>

\* The log lines that format test_data: a null among the keys they read
\* raises TypeError, which nothing catches.
MainLog ==
    /\ mainPc = "log"
    /\ mainPc' = IF data.null \cap LogReads # {} THEN "crashed" ELSE "init"
    /\ UNCHANGED <<pollPc, lock, values, data, applyK, sf, failures, srv,
                   resp, runFails, runAlerts, recovered, written>>

\* initialize_sunspec_registers: with hr_lock:
InitAcquire ==
    /\ mainPc = "init"
    /\ lock = "free"
    /\ lock' = "main"
    /\ mainPc' = "initw"
    /\ UNCHANGED <<pollPc, values, data, applyK, sf, failures, srv, resp,
                   runFails, runAlerts, recovered, written>>

InitWrite ==
    /\ mainPc = "initw"
    /\ values' = InitializeSunspecRegisters(values)
    /\ mainPc' = "initr"
    /\ UNCHANGED <<pollPc, lock, data, applyK, sf, failures, srv, resp,
                   runFails, runAlerts, recovered, written>>

InitRelease ==
    /\ mainPc = "initr"
    /\ lock' = "free"
    /\ mainPc' = "apply"
    /\ applyK' = 0
    /\ UNCHANGED <<pollPc, values, data, sf, failures, srv, resp, runFails,
                   runAlerts, recovered, written>>

\* update_thread.start(); update_meter_data begins with failures = 0
MainSpawn ==
    /\ mainPc = "spawn"
    /\ mainPc' = "sleep"
    /\ pollPc' = "idle"
    /\ failures' = 0
    /\ resp' = RespNone
    /\ written' = {}
    /\ UNCHANGED <<lock, values, data, applyK, sf, srv, runFails, runAlerts,
                   recovered>>

\* time.sleep(0.5); StartTcpServer(...)
MainServe ==
    /\ mainPc = "sleep"
    /\ mainPc' = "serving"
    /\ UNCHANGED <<pollPc, lock, values, data, applyK, sf, failures, srv,
                   resp, runFails, runAlerts, recovered, written>>

(***************************************************************************)
(* update_registers_from_shelly, run by thread t: "main" (line 386) or     *)
(* "poller" (line 321).                                                    *)
(***************************************************************************)
Applying(t) == IF t = "main" THEN mainPc = "apply" ELSE pollPc = "apply"

\* An update_meter_data without its "except Exception": the exception ends
\* the thread.
AfterUpdateErrorDead == "dead"

\* Where the poller goes when update_registers_from_shelly raises:
\* "except Exception as e: log.error(...)", then the sleep of line 340.
AfterUpdateError == "idle"

\* An exception leaves update_registers_from_shelly: main has no handler,
\* update_meter_data catches it.
Raised(t) ==
    /\ mainPc' = IF t = "main" THEN "crashed" ELSE mainPc
    /\ pollPc' = IF t = "main" THEN pollPc ELSE AfterUpdateError
    /\ applyK' = 0

\* Lines 225-239.
ApplyDerive(t) ==
    /\ Applying(t)
    /\ applyK = 0
    /\ IF data.null \cap DeriveReads # {}
       THEN Raised(t)
       ELSE applyK' = 1 /\ UNCHANGED <<mainPc, pollPc>>
    /\ recovered' = FALSE
    /\ UNCHANGED <<lock, values, data, sf, failures, srv, resp, runFails,
                   runAlerts, written>>

\* The dicts get_shelly_data returns for the responses of the model.
Bodies ==
    {GetShellyData(r).v :
        r \in {x \in Responses \cup ApplyResponses : ~GetShellyData(x).none}}

\* struct.pack('>f', value) of the k-th call for each of these dicts,
\* tabulated so that the conversion is evaluated once per dict and field.
PackedFields ==
    [b \in Bodies |-> [k \in 1 .. NFIELDS |-> Float32Words(FieldVal(k, b))]]

\* struct.pack('>f', value) raises OverflowError inside the try of
\* set_float32: "except Exception as e: log.error(...)" and the call returns
\* without having written.
PackOverflows(k, d) == FieldReads(k) \cap d.huge # {}

\* The k-th call: its argument is evaluated (a null raises TypeError in the
\* caller), then set_float32 packs it and enters "with hr_lock:".
SetFloatEnter(t) ==
    /\ Applying(t)
    /\ applyK \in 1 .. NFIELDS
    /\ ~sf.in
    /\ IF FieldReads(applyK) \cap data.null # {}
       THEN Raised(t) /\ UNCHANGED <<lock, sf>>
       ELSE IF PackOverflows(applyK, data)
       THEN applyK' = applyK + 1 /\ UNCHANGED <<mainPc, pollPc, lock, sf>>
       ELSE /\ lock = "free"
            /\ lock' = t
            /\ sf' = [in   |-> TRUE,
                      addr |-> FieldAddr(applyK),
                      regs |-> PackedFields[data.v][applyK],
                      i    |-> 0,
                      old  |-> GetValues(values, FieldAddr(applyK), 2)]
            /\ UNCHANGED <<mainPc, pollPc, applyK>>
    /\ UNCHANGED <<values, data, failures, srv, resp, runFails, runAlerts,
                   recovered, written>>

\* One turn of the loop of setValues(addr, [registers[0], registers[1]]).
SetFloatWrite(t) ==
    /\ Applying(t)
    /\ sf.in
    /\ sf.i < 2
    /\ values' = SetCell(values, sf.addr, sf.i, sf.regs[sf.i + 1])
    /\ sf' = [sf EXCEPT !.i = @ + 1]
    /\ UNCHANGED <<mainPc, pollPc, lock, data, applyK, failures, srv, resp,
                   runFails, runAlerts, recovered, written>>

\* The with-block ends: hr_lock is released and set_float32 returns.
SetFloatExit(t) ==
    /\ Applying(t)
    /\ sf.in
    /\ sf.i = 2
    /\ lock' = "free"
    /\ sf' = SfOut
    /\ applyK' = applyK + 1
    /\ written' = written \cup {sf.addr}
    /\ UNCHANGED <<mainPc, pollPc, values, data, failures, srv, resp,
                   runFails, runAlerts, recovered>>

\* return data['total_act_power']; the poller logs its status line (lines
\* 323-335) and sleeps, main goes on to start the thread.
ApplyReturn(t) ==
    /\ Applying(t)
    /\ applyK = NFIELDS + 1
    /\ applyK' = 0
    /\ mainPc' = IF t = "main" THEN "spawn" ELSE mainPc
    /\ pollPc' = IF t = "main" THEN pollPc ELSE "idle"
    /\ UNCHANGED <<lock, values, data, sf, failures, srv, resp, runFails,
                   runAlerts, recovered, written>>

(***************************************************************************)
(* update_meter_data, the poller thread.                                   *)
(***************************************************************************)
\* A get_shelly_data that runs inside "with hr_lock:".
PollFetchStartLocked ==
    /\ pollPc = "idle"
    /\ lock = "free"
    /\ lock' = "poller"
    /\ pollPc' = "fetch"
    /\ written' = {}
    /\ UNCHANGED <<mainPc, values, data, applyK, sf, failures, srv, resp,
                   runFails, runAlerts, recovered>>

\* The sleep is over: data = get_shelly_data() issues its request.
PollFetchStart ==
    /\ pollPc = "idle"
    /\ pollPc' = "fetch"
    /\ written' = {}
    /\ UNCHANGED <<mainPc, lock, values, data, applyK, sf, failures, srv,
                   resp, runFails, runAlerts, recovered>>

\* "if failures > 10"
ThresholdReachedLate(f) == f > FAIL_THRESHOLD

\* "if failures >= 10"
ThresholdReached(f) == f >= FAIL_THRESHOLD

\* get_shelly_data returned None: lines 313-318.
PollFetchFail(r) ==
    /\ pollPc = "fetch"
    /\ GetShellyData(r).none
    /\ runFails < MaxFailRun
    /\ resp' = r
    /\ data' = GetShellyData(r)
    /\ failures' = IF ThresholdReached(failures + 1) THEN 0 ELSE failures + 1
    /\ runAlerts' = IF ThresholdReached(failures + 1)
                    THEN runAlerts + 1 ELSE runAlerts
    /\ runFails' = runFails + 1
    /\ pollPc' = "idle"
    /\ srv' = [srv EXCEPT !.quiet = FALSE]
    /\ UNCHANGED <<mainPc, lock, values, applyK, sf, recovered, written>>

\* An update_meter_data without line 320.
FailuresKept(f) == f

\* "failures = 0" of line 320.
FailuresAfterSuccess(f) == 0

\* get_shelly_data returned a dict: line 320, then line 321 is entered.
PollFetchOk(r) ==
    /\ pollPc = "fetch"
    /\ ~GetShellyData(r).none
    /\ resp' = r
    /\ data' = GetShellyData(r)
    /\ failures' = FailuresAfterSuccess(failures)
    /\ runFails' = 0
    /\ runAlerts' = 0
    /\ recovered' = (runFails > 0)
    /\ pollPc' = "apply"
    /\ applyK' = 0
    /\ srv' = [srv EXCEPT !.quiet = FALSE]
    /\ UNCHANGED <<mainPc, lock, values, sf, written>>

(***************************************************************************)
(* The Modbus server: one request at a time, through validate, getValues   *)
(* and setValues of the data block.                                        *)
(***************************************************************************)
\* def validate(self, address, count=1): return True
Validate(address, count) == TRUE

ReadStart(req) ==
    /\ mainPc = "serving"
    /\ srv.pc = "idle"
    /\ Validate(req[1], req[2])
    /\ srv' = [pc |-> "read", addr |-> req[1], count |-> req[2],
               vals |-> <<>>, i |-> 0, res |-> <<>>, from |-> <<>>,
               quiet |-> pollPc = "fetch"]
    /\ UNCHANGED <<mainPc, pollPc, lock, values, data, applyK, sf, failures,
                   resp, runFails, runAlerts, recovered, written>>

\* The value of the register pair at address to which the word now in its
\* cell i belongs: while set_float32 is between its two writes of that
\* pair, cell 0 holds a word of the pair being written and cell 1 a word
\* of the pair it replaces; otherwise both cells hold one value.
PairOf(address, i) ==
    IF sf.in /\ sf.addr = address /\ sf.i = 1
       /\ GetCell(values, address, i) = (IF i = 0 THEN sf.regs ELSE sf.old)[i + 1]
    THEN (IF i = 0 THEN sf.regs ELSE sf.old)
    ELSE GetValues(values, address, 2)

\* One turn of the loop of getValues; after the last, result is returned.
ReadCell ==
    /\ srv.pc = "read"
    /\ srv' = [srv EXCEPT !.res = Append(@, GetCell(values, srv.addr, srv.i)),
                          !.from = Append(@, PairOf(srv.addr, srv.i)),
                          !.i = @ + 1,
                          !.pc = IF srv.i + 1 = srv.count
                                 THEN "done" ELSE "read"]
    /\ UNCHANGED <<mainPc, pollPc, lock, values, data, applyK, sf, failures,
                   resp, runFails, runAlerts, recovered, written>>

\* The response is sent.
ReadReturn ==
    /\ srv.pc = "done"
    /\ srv' = SrvIdle
    /\ UNCHANGED <<mainPc, pollPc, lock, values, data, applyK, sf, failures,
                   resp, runFails, runAlerts, recovered, written>>

WriteStart(req) ==
    /\ mainPc = "serving"
    /\ srv.pc = "idle"
    /\ Validate(req[1], Len(req[2]))
    /\ srv' = [SrvIdle EXCEPT !.pc = "write", !.addr = req[1],
                              !.vals = req[2]]
    /\ UNCHANGED <<mainPc, pollPc, lock, values, data, applyK, sf, failures,
                   resp, runFails, runAlerts, recovered, written>>

\* One turn of the loop of setValues.
WriteCell ==
    /\ srv.pc = "write"
    /\ values' = SetCell(values, srv.addr, srv.i, srv.vals[srv.i + 1])
    /\ srv' = IF srv.i + 1 = Len(srv.vals) THEN SrvIdle
              ELSE [srv EXCEPT !.i = @ + 1]
    /\ UNCHANGED <<mainPc, pollPc, lock, data, applyK, sf, failures, resp,
                   runFails, runAlerts, recovered, written>>

(***************************************************************************)
(* 3EMFroniusMeter.py.  One asyncio event loop runs main, updating_task    *)
(* and the server: a coroutine is left only at an await, so what lies      *)
(* between two awaits is one step.  The program uses the variables above:  *)
(*   mainPc  "em_start" (main not yet run) or "em_serving" (inside         *)
(*           StartAsyncTcpServer);                                         *)
(*   pollPc  updating_task: "off" (not created), "em_idle" (created, or    *)
(*           in the sleep of line 54), "em_fetch" (in the get of line 34); *)
(*   values  block.values;                                                 *)
(*   resp    the answer to the last get;                                   *)
(*   written the addresses updating_task wrote in its current cycle;       *)
(*   srv     the request the server has answered and not yet sent.         *)
(***************************************************************************)
EmVariant == mainPc \in {"em_start", "em_serving"}

\* block.setValues(address, vals) of ModbusSequentialDataBlock(0, ...):
\* values[address : address + len(vals)] = vals
BlockSet(v, address, vals) ==
    [idx \in DOMAIN v |->
        IF address <= idx /\ idx < address + Len(vals)
        THEN vals[idx - address + 1] ELSE v[idx]]

\* slave_context.setValues(3, address, vals): the context adds 1.
ContextSet(v, address, vals) == BlockSet(v, address + 1, vals)

\* slave_context.getValues(3, address, count), the read of the server.
ContextGet(v, address, count) == [i \in 1 .. count |-> v[address + i]]

\* The setValues calls of main, in program order.
EmHeaderWrites ==
    << <<1, <<21365, 28243>>>>,
       <<3, <<1, 65>>>>,
       <<5, <<18034, 28526, 26997, 29440, 0, 0, 0, 0>>>>,
       <<70, <<203, 105>>>>,
       <<91, <<0>>>>,
       <<96, <<0>>>>,
       <<110, <<0>>>>,
       <<124, <<0>>>> >>

RECURSIVE EmApplyWrites(_, _, _)
EmApplyWrites(v, writes, from) ==
    IF from > Len(writes) THEN v
    ELSE EmApplyWrites(BlockSet(v, writes[from][1], writes[from][2]),
                       writes, from + 1)

\* int(val) of a number: truncation towards zero.
IntTrunc(x) ==
    IF x[1] >= 0 THEN x[1] \div x[2] ELSE -((-x[1]) \div x[2])

\* struct.pack("h", n) raises struct.error outside this range.
Int16Fits(n) == -32768 <= n /\ n <= 32767

\* to_int16(val) for a val that fits.
ToInt16(n) == n % 65536

\* A split_32 without the "& 0xFFFF" of its high word.
Split32NoMask(n) == <<n \div 65536, n % 65536>>

\* split_32(val): [(val >> 16) & 0xFFFF, val & 0xFFFF]
Split32(n) == <<(n \div 65536) % 65536, n % 65536>>

\* The keys lines 40-42 read from the body.
EmKeys == {"total_act_power", "total_act_energy", "total_act_ret_energy"}

\* em.get(k, 0) / emdata.get(k, 0): the value is not there.
EmAbsent(r, k) == Absent(r, k) \/ (k = "total_act_power" /\ ~r.em)

\* int(...) of lines 40-42 for key k.
EmInt(r, k) == IF EmAbsent(r, k) THEN 0 ELSE IntTrunc(Body(r.base)[k])

\* Lines 35-46 write nothing: the status is not 200 or r.json() raised,
\* int(None) raises at lines 40-42, or to_int16 raises at line 46.
EmSkips(r) ==
    \/ r.status # "ok"
    \/ \E k \in EmKeys : k \in r.null /\ ~EmAbsent(r, k)
    \/ ~Int16Fits(EmInt(r, "total_act_power"))

\* Lines 46-48.
EmUpdate(v, r) ==
    ContextSet(
        ContextSet(
            ContextSet(v, 97, <<ToInt16(EmInt(r, "total_act_power"))>>),
            129, Split32(EmInt(r, "total_act_ret_energy"))),
        137, Split32(EmInt(r, "total_act_energy")))

EmReadRequests == {<<129, 2>>}

\* Write-single-register requests: to the power register and to the first
\* register of the SunSpec header.
EmWriteRequests == {<<97, <<4660>>>>, <<0, <<4660>>>>}

\* main up to its await: the headers are set and updating_task is created.
EmMain ==
    /\ mainPc = "em_start"
    /\ values' = EmApplyWrites(values, EmHeaderWrites, 1)
    /\ mainPc' = "em_serving"
    /\ pollPc' = "em_idle"
    /\ UNCHANGED <<lock, data, applyK, sf, failures, srv, resp, runFails,
                   runAlerts, recovered, written>>

\* r = await client.get(url, timeout=1.0): the request is sent.
EmFetchStart ==
    /\ pollPc = "em_idle"
    /\ pollPc' = "em_fetch"
    /\ written' = {}
    /\ UNCHANGED <<mainPc, lock, values, data, applyK, sf, failures, srv,
                   resp, runFails, runAlerts, recovered>>

\* The get returns or raises; lines 35-52 run up to the sleep of line 54.
EmFetchDone(r) ==
    /\ pollPc = "em_fetch"
    /\ resp' = r
    /\ values' = IF EmSkips(r) THEN values ELSE EmUpdate(values, r)
    /\ written' = IF EmSkips(r) THEN {} ELSE {97, 129, 137}
    /\ pollPc' = "em_idle"
    /\ srv' = [srv EXCEPT !.quiet = FALSE]
    /\ UNCHANGED <<mainPc, lock, data, applyK, sf, failures, runFails,
                   runAlerts, recovered>>

\* A read request: the server answers it without leaving the event loop.
EmRead(req) ==
    /\ mainPc = "em_serving"
    /\ srv.pc = "idle"
    /\ srv' = [pc |-> "done", addr |-> req[1], count |-> req[2],
               vals |-> <<>>, i |-> req[2],
               res |-> ContextGet(values, req[1], req[2]),
               from |-> [i \in 1 .. req[2] |-> ContextGet(values, req[1], 2)],
               quiet |-> pollPc = "em_fetch"]
    /\ UNCHANGED <<mainPc, pollPc, lock, values, data, applyK, sf, failures,
                   resp, runFails, runAlerts, recovered, written>>

\* A write request: the block accepts every address it holds.
EmWrite(req) ==
    /\ mainPc = "em_serving"
    /\ srv.pc = "idle"
    /\ values' = ContextSet(values, req[1], req[2])
    /\ UNCHANGED <<mainPc, pollPc, lock, data, applyK, sf, failures, srv,
                   resp, runFails, runAlerts, recovered, written>>

EmTaskNext ==
    \/ EmFetchStart
    \/ \E r \in EmResponses : EmFetchDone(r)

EmNext ==
    \/ EmMain
    \/ EmTaskNext
    \/ \E req \in EmReadRequests : EmRead(req)
    \/ \E req \in EmWriteRequests : EmWrite(req)

MainNext ==
    \/ \E r \in Responses : MainStartupFetch(r)
    \/ MainLog
    \/ InitAcquire
    \/ InitWrite
    \/ InitRelease
    \/ MainSpawn
    \/ MainServe

ApplyNext(t) ==
    \/ ApplyDerive(t)
    \/ SetFloatEnter(t)
    \/ SetFloatWrite(t)
    \/ SetFloatExit(t)
    \/ ApplyReturn(t)

PollerNext ==
    \/ PollFetchStart
    \/ \E r \in Responses : PollFetchFail(r)
    \/ \E r \in Responses : PollFetchOk(r)
    \/ ApplyNext("poller")

ServerNext ==
    \/ \E req \in ReadRequests : ReadStart(req)
    \/ ReadCell
    \/ ReadReturn
    \/ \E req \in WriteRequests : WriteStart(req)
    \/ WriteCell

Next ==
    MainNext \/ ApplyNext("main") \/ PollerNext \/ ServerNext \/ EmNext

Spec == Init /\ [][Next]_vars

\* The scheduler lets the poller thread run again and again and the event
\* loop resumes updating_task when its await is over; every get returns or
\* times out (timeout=5, timeout=1.0).
FairSpec == Spec /\ WF_vars(PollerNext) /\ WF_vars(EmTaskNext)

(***************************************************************************)
(* SharedModbusDataBlock on its own: one setValues(addr, vals) call and    *)
(* then one getValues(addr, count) call, turn by turn, for an address, a   *)
(* list and a count chosen at the start.  mainPc is "unit"; srv.pc is      *)
(* "set", "get", "done" or "raised" (an IndexError left the loop);         *)
(* srv.from is values as it was before the setValues call.                 *)
(***************************************************************************)
\* The largest count of a getValues call.
MaxCount == 3

UnitAddresses ==
    {-1, 0, 1, 2, 40098, VALUES_LEN - 2, VALUES_LEN - 1, VALUES_LEN,
     VALUES_LEN + 1}

UnitValues == {<<>>, <<7>>, <<65535, 1>>, <<1, 2, 3>>}

\* The stores the calls are made on: as constructed, and with no cell 0.
UnitStores ==
    {[idx \in CellIdx |-> 0], [idx \in CellIdx |-> (idx % 7) + 1]}

StoreInit ==
    /\ mainPc = "unit"
    /\ pollPc = "off"
    /\ lock = "free"
    /\ values \in UnitStores
    /\ data = NoData
    /\ applyK = 0
    /\ sf = SfOut
    /\ failures = 0
    /\ \E address \in UnitAddresses, vals \in UnitValues, count \in 0 .. MaxCount :
          srv = [pc |-> IF vals # <<>> THEN "set"
                        ELSE IF count > 0 THEN "get" ELSE "done",
                 addr |-> address, count |-> count, vals |-> vals, i |-> 0,
                 res |-> <<>>, from |-> values, quiet |-> FALSE]
    /\ resp = RespNone
    /\ runFails = 0
    /\ runAlerts = 0
    /\ recovered = FALSE
    /\ written = {}

\* One turn of "for i, value in enumerate(values)".
StoreSetTurn ==
    /\ mainPc = "unit"
    /\ srv.pc = "set"
    /\ IF CellRaises(srv.addr, srv.i)
       THEN /\ srv' = [srv EXCEPT !.pc = "raised"]
            /\ UNCHANGED values
       ELSE /\ values' = SetCell(values, srv.addr, srv.i, srv.vals[srv.i + 1])
            /\ srv' = IF srv.i + 1 < Len(srv.vals)
                      THEN [srv EXCEPT !.i = @ + 1]
                      ELSE [srv EXCEPT !.i = 0,
                                       !.pc = IF srv.count > 0
                                              THEN "get" ELSE "done"]
    /\ UNCHANGED <<mainPc, pollPc, lock, data, applyK, sf, failures, resp,
                   runFails, runAlerts, recovered, written>>

\* One turn of "for i in range(count)".
StoreGetTurn ==
    /\ mainPc = "unit"
    /\ srv.pc = "get"
    /\ srv' = IF CellRaises(srv.addr, srv.i)
              THEN [srv EXCEPT !.pc = "raised"]
              ELSE [srv EXCEPT
                       !.res = Append(@, GetCell(values, srv.addr, srv.i)),
                       !.i = @ + 1,
                       !.pc = IF srv.i + 1 = srv.count THEN "done" ELSE "get"]
    /\ UNCHANGED <<mainPc, pollPc, lock, values, data, applyK, sf, failures,
                   resp, runFails, runAlerts, recovered, written>>

StoreNext == StoreSetTurn \/ StoreGetTurn

StoreSpec == StoreInit /\ [][StoreNext]_vars

(***************************************************************************)
(* update_registers_from_shelly run by itself: on the dict of one answer,  *)
(* by main on the store initialize_sunspec_registers has left (line 386),  *)
(* or by the poller on a store that holds an earlier snapshot (line 322).  *)
(***************************************************************************)
\* The 33 set_float32 calls of lines 242-301 for a dict of numbers that all
\* fit a float32, as a list of setValues calls.
FieldWrites(b) ==
    [k \in 1 .. NFIELDS |-> <<FieldAddr(k), PackedFields[b][k]>>]

\* The store after initialize_sunspec_registers and one whole
\* update_registers_from_shelly(b).
StoreAfter(b) ==
    ApplyWrites(InitializeSunspecRegisters([idx \in CellIdx |-> 0]),
                FieldWrites(b), 1)

ApplyInit ==
    /\ \E r \in ApplyResponses, t \in {"main", "poller"} :
          /\ resp = r
          /\ data = GetShellyData(r)
          /\ mainPc = IF t = "main" THEN "apply" ELSE "serving"
          /\ pollPc = IF t = "main" THEN "off" ELSE "apply"
          /\ values = IF t = "main"
                      THEN InitializeSunspecRegisters([idx \in CellIdx |-> 0])
                      ELSE StoreAfter(SnapB)
    /\ lock = "free"
    /\ applyK = 0
    /\ sf = SfOut
    /\ failures = 0
    /\ srv = SrvIdle
    /\ runFails = 0
    /\ runAlerts = 0
    /\ recovered = FALSE
    /\ written = {}

ApplySpec == ApplyInit /\ [][ApplyNext("main") \/ ApplyNext("poller")]_vars

(***************************************************************************)
(* split_32 run by itself on a 32-bit signed integer: srv.addr is its      *)
(* argument and srv.res the list it returns.                               *)
(***************************************************************************)
SplitHighs == {-32768, -32767, -256, -1, 0, 1, 255, 32767}

SplitLows == {0, 1, 255, 256, 32767, 32768, 65535}

\* Arguments from -2^31 to 2^31 - 1, around every word boundary.
SplitInputs == {hi * 65536 + lo : hi \in SplitHighs, lo \in SplitLows}

SplitInit ==
    /\ mainPc = "split"
    /\ pollPc = "off"
    /\ lock = "free"
    /\ values = [idx \in 0 .. (EM_BLOCK_LEN - 1) |-> 0]
    /\ data = NoData
    /\ applyK = 0
    /\ sf = SfOut
    /\ failures = 0
    /\ \E val \in SplitInputs : srv = [SrvIdle EXCEPT !.pc = "split",
                                                      !.addr = val]
    /\ resp = RespNone
    /\ runFails = 0
    /\ runAlerts = 0
    /\ recovered = FALSE
    /\ written = {}

SplitCall ==
    /\ mainPc = "split"
    /\ srv.pc = "split"
    /\ srv' = [srv EXCEPT !.pc = "done", !.res = Split32(srv.addr)]
    /\ UNCHANGED <<mainPc, pollPc, lock, values, data, applyK, sf, failures,
                   resp, runFails, runAlerts, recovered, written>>

SplitSpec == SplitInit /\ [][SplitCall]_vars

(***************************************************************************)
(* Definitions used by the properties.                                     *)
(***************************************************************************)
\* The thread that is inside update_registers_from_shelly.
ApplyThread == IF mainPc = "apply" THEN "main" ELSE "poller"

\* The poller (the updating task) is inside its network fetch.
Fetching == pollPc \in {"fetch", "em_fetch"}

\* The poller (the updating task) is between two cycles.
Idle == pollPc \in {"idle", "em_idle"}

\* The fetch failed at the fetch level: an error, a timeout, a status other
\* than 200, a body that does not parse, or a body without the em:{id} key.
FetchLevelFailure(r) == r.status # "ok" \/ ~r.em

\* This step is a turn of the setValues loop of set_float32.
SetFloatWrote ==
    /\ sf.in
    /\ sf.i < 2
    /\ sf'.i = sf.i + 1
    /\ values' = SetCell(values, sf.addr, sf.i, sf.regs[sf.i + 1])

\* The body arrived but lacks a key the program reads, or holds null where
\* a number is expected.
Malformed(r) ==
    r.status = "ok" /\ (~r.em \/ ~r.emdata \/ r.missing # {} \/ r.null # {})

\* A cycle of update_meter_data has ended.
CycleEnded == pollPc = "idle" /\ resp.status # "none"

\* The registers a read of (srv.addr, srv.count) returns now.
CurrentRegisters ==
    IF EmVariant THEN ContextGet(values, srv.addr, srv.count)
    ELSE GetValues(values, srv.addr, srv.count)

(***************************************************************************)
(* C1.  While the poller writes a register pair with set_float32 and the   *)
(* server reads the pair through getValues, no read returns one word of    *)
(* the value being written and the other word of the value it replaces:    *)
(* the result of a two-register read is one of the values its words were   *)
(* taken from.  (Refuted: getValues does not take hr_lock.)                *)
(***************************************************************************)
C1_NoTornRead ==
    (srv.pc = "done" /\ srv.count = 2)
        => srv.res \in {srv.from[1], srv.from[2]}

(***************************************************************************)
(* C2.  Every access to the register array -- the header initialisation,   *)
(* the writes of set_float32 and the reads and writes the server performs  *)
(* for a request -- happens while the accessing thread holds hr_lock.      *)
(* (Refuted: the server's getValues and setValues run without the lock.)   *)
(***************************************************************************)
C2_AccessUnderLock ==
    /\ mainPc = "initw" => lock = "main"
    /\ sf.in => lock = ApplyThread
    /\ srv.pc \in {"read", "write"} => lock = "server"

(***************************************************************************)
(* C3.  A poll cycle whose fetch fails at the fetch level (error, timeout, *)
(* status other than 200, unparsable body, no em:{id} key) modifies no     *)
(* register: the step in which the poller learns of the failure leaves     *)
(* the store as it was.  (Refuted: updating_task of 3EMFroniusMeter.py     *)
(* reads a body without em:0 as zeros and writes them.)                    *)
(***************************************************************************)
C3_FailedFetchKeepsStore ==
    [][(Fetching /\ ~Fetching' /\ FetchLevelFailure(resp'))
           => values' = values]_vars

(***************************************************************************)
(* C4.  A poll cycle whose response arrives but is malformed or lacks      *)
(* expected keys (a field of em:{id} missing or null, no emdata:{id}) is   *)
(* a failure in which no register is written.  (Refuted: get_shelly_data   *)
(* puts defaults in the place of missing keys and the cycle writes them;   *)
(* a null stops update_registers_from_shelly part of the way.)             *)
(***************************************************************************)
C4_MalformedWritesNothing ==
    (CycleEnded /\ Malformed(resp)) => written = {}

(***************************************************************************)
(* C5.  The alert is logged exactly when the failure counter reaches 10,   *)
(* and the counter is reset then: after N consecutive failures N div 10    *)
(* alerts have been logged (one for 12) and the counter is N mod 10, so    *)
(* always within 0..9 between cycles.                                      *)
(***************************************************************************)
C5_AlertEveryTenth ==
    /\ failures \in 0 .. (FAIL_THRESHOLD - 1)
    /\ failures = runFails % FAIL_THRESHOLD
    /\ runAlerts = runFails \div FAIL_THRESHOLD

\* Twelve consecutive failures: one alert, counter at 2.
C5_Witness == runFails = 12 /\ runAlerts = 1 /\ failures = 2

(***************************************************************************)
(* C6.  Every successful fetch resets the failure counter to 0, and an     *)
(* alert is logged only by a failure that is at least the tenth since the  *)
(* last successful fetch.                                                  *)
(***************************************************************************)
C6_SuccessResetsCounter ==
    [][/\ (pollPc = "fetch" /\ pollPc' = "apply") => failures' = 0
       /\ runAlerts' > runAlerts => runFails' >= FAIL_THRESHOLD]_vars

\* A fetch has succeeded after failed cycles and the counter is back at 0.
C6_Witness == recovered /\ pollPc = "apply" /\ failures = 0

(***************************************************************************)
(* C7.  The poll loop never stops: unless the poller is never started,    *)
(* whatever its cycles do (failed fetch, apply, apply that raises), it is  *)
(* between two cycles again and again and inside a fetch again and again.  *)
(***************************************************************************)
C7_PollerKeepsFetching ==
    <>[](pollPc = "off") \/ ([]<>Idle /\ []<>Fetching)

\* The poller is fetching again after an apply step that raised.
C7_Witness == pollPc = "fetch" /\ ~data.none /\ data.null # {}

(***************************************************************************)
(* C8.  No upstream failure ends the process, not even at the first fetch  *)
(* at startup.  (Refuted: main exits when its startup fetch fails.)        *)
(***************************************************************************)
C8_NeverFatal == mainPc # "exited"

(***************************************************************************)
(* C9.  hr_lock is not held while the poller is inside its network fetch,  *)
(* and a read that is handled entirely while one fetch is in progress      *)
(* returns the current register values.                                    *)
(***************************************************************************)
C9_FetchHoldsNoLock ==
    /\ Fetching => lock = "free"
    /\ (srv.pc = "done" /\ srv.quiet) => srv.res = CurrentRegisters

\* A read has completed while the fetch it began under is still going on.
C9_Witness == srv.pc = "done" /\ srv.quiet /\ pollPc = "fetch"

(***************************************************************************)
(* C10.  After startup of shelly_master.py only the poller changes         *)
(* registers: every step that changes the store is a write of set_float32  *)
(* in the poller's apply step, and no request handled by the server        *)
(* changes a register.  (Refuted: validate accepts every write request     *)
(* and setValues stores its values.)                                       *)
(***************************************************************************)
C10_OnlyPollerWrites ==
    [][(mainPc \in {"sleep", "serving"}) =>
           (values' = values \/ SetFloatWrote)]_vars

\* The cell of index i of a call at srv.addr: address + i - address_offset.
UnitIdx(i) == srv.addr + i - ADDRESS_OFFSET

\* The cell is outside the backing array.
Outside(idx) == idx < 0 \/ idx >= VALUES_LEN

(***************************************************************************)
(* C11.  getValues and setValues never raise.  After setValues(addr,       *)
(* vals) every cell addr + i - address_offset inside the array holds       *)
(* vals[i], the values for cells outside are dropped and every other cell  *)
(* is as before; getValues(addr, count) returns count values, 0 at every   *)
(* position whose cell is outside the array and the cell elsewhere.        *)
(***************************************************************************)
C11_OutOfRangeTolerated ==
    /\ srv.pc # "raised"
    /\ srv.pc \in {"get", "done"} =>
          \A idx \in DOMAIN values :
              LET hit == {i \in 0 .. (Len(srv.vals) - 1) : UnitIdx(i) = idx}
              IN  IF hit = {} THEN values[idx] = srv.from[idx]
                  ELSE \A i \in hit : values[idx] = srv.vals[i + 1]
    /\ srv.pc = "done" =>
          /\ Len(srv.res) = srv.count
          /\ \A i \in 0 .. (srv.count - 1) :
                srv.res[i + 1] =
                    IF Outside(UnitIdx(i)) THEN 0 ELSE values[UnitIdx(i)]

\* Both calls straddle the end of the array: two cells written and read,
\* the third value dropped and read as 0.
C11_Witness ==
    /\ mainPc = "unit"
    /\ srv.pc = "done"
    /\ srv.addr = VALUES_LEN - 1
    /\ srv.vals = <<1, 2, 3>>
    /\ srv.res = <<1, 2, 0>>
    /\ srv.from[VALUES_LEN - 1] # 2

(***************************************************************************)
(* C12.  For a range of addresses fully inside the store, setValues(addr,  *)
(* vals) followed by getValues(addr, len(vals)) returns vals.              *)
(***************************************************************************)
C12_WriteReadRoundTrip ==
    (/\ srv.pc = "done"
     /\ srv.vals # <<>>
     /\ srv.count = Len(srv.vals)
     /\ ~Outside(UnitIdx(0))
     /\ ~Outside(UnitIdx(Len(srv.vals) - 1)))
        => srv.res = srv.vals

\* Two words written over other contents at 40098 and read back.
C12_Witness ==
    /\ mainPc = "unit"
    /\ srv.pc = "done"
    /\ srv.addr = 40098
    /\ srv.vals = <<65535, 1>>
    /\ srv.count = 2
    /\ srv.from[40097] # 65535

\* update_registers_from_shelly has returned to its caller.
ApplyEnded == applyK = 0 /\ (mainPc = "spawn" \/ pollPc = "idle")

\* The two registers of the largest finite float32 (0x7F7F 0xFFFF).
Float32MaxWords == <<32639, 65535>>

(***************************************************************************)
(* C13.  A quantity that the register encoding cannot represent (a power   *)
(* outside the signed 16-bit range in 3EMFroniusMeter.py, a value above    *)
(* the largest float32 in shelly_master.py) is written as the saturated    *)
(* value to its own field, and every other field of the cycle is written   *)
(* too.  (Refuted: to_int16 raises and the cycle writes nothing;           *)
(* set_float32 catches the OverflowError and leaves the field as it was.)  *)
(***************************************************************************)
C13_OutOfRangeSaturates ==
    /\ (pollPc = "em_idle" /\ resp = RespOutOfRange)
           => (/\ written = {97, 129, 137}
               /\ ContextGet(values, 97, 1) = <<32767>>)
    /\ (~EmVariant /\ ApplyEnded /\ data.huge # {})
           => \A k \in 1 .. NFIELDS :
                 /\ FieldAddr(k) \in written
                 /\ PackOverflows(k, data)
                       => GetValues(values, FieldAddr(k), 2) = Float32MaxWords

\* The counter the updating task of 3EMFroniusMeter.py read for key k.
EmCounter(r, k) == IF EmAbsent(r, k) THEN RInt(0) ELSE Body(r.base)[k]

(***************************************************************************)
(* C14.  In both programs a cycle that has written the energy counters     *)
(* has written each of them as the two registers of its big-endian         *)
(* float32.  (Refuted: 3EMFroniusMeter.py writes split_32(int(counter)),   *)
(* the two halves of the 32-bit integer.)                                  *)
(***************************************************************************)
C14_EnergyWrittenAsFloat32 ==
    /\ (pollPc = "em_idle" /\ {129, 137} \subseteq written)
           => /\ ContextGet(values, 129, 2)
                    = Float32Words(EmCounter(resp, "total_act_ret_energy"))
              /\ ContextGet(values, 137, 2)
                    = Float32Words(EmCounter(resp, "total_act_energy"))
    /\ (~EmVariant /\ ApplyEnded)
           => \A k \in 30 .. NFIELDS :
                 FieldAddr(k) \in written
                    => GetValues(values, FieldAddr(k), 2)
                          = PackedFields[data.v][k]

\* The 32-bit two's-complement integer whose big-endian words are w.
DecodeInt32(w) ==
    (IF w[1] >= 32768 THEN w[1] - 65536 ELSE w[1]) * 65536 + w[2]

(***************************************************************************)
(* C15.  For every 32-bit signed integer, split_32 returns two words in    *)
(* 0..65535, and reading them as a big-endian 32-bit two's-complement      *)
(* integer gives the argument back.                                        *)
(***************************************************************************)
C15_Split32RoundTrip ==
    mainPc = "split" /\ srv.pc = "done"
        => /\ Len(srv.res) = 2
           /\ \A i \in 1 .. 2 : srv.res[i] \in 0 .. 65535
           /\ DecodeInt32(srv.res) = srv.addr

\* split_32 has returned for a negative argument.
C15_Witness ==
    mainPc = "split" /\ srv.pc = "done" /\ srv.addr < 0 /\ srv.res[1] >= 32768

\* The raw power factor of key k of dict d times sign.
TimesSign(d, k, sign) == <<sign * d[k][1], d[k][2]>>

\* The power factor fields (40122 average, 40124-40128 phases) hold the
\* raw factors of dict d times sign, and their arithmetic mean.
PfFieldsHold(d, sign) ==
    /\ GetValues(values, 40124, 2) = Float32Words(TimesSign(d, "a_pf", sign))
    /\ GetValues(values, 40126, 2) = Float32Words(TimesSign(d, "b_pf", sign))
    /\ GetValues(values, 40128, 2) = Float32Words(TimesSign(d, "c_pf", sign))
    /\ GetValues(values, 40122, 2) =
          Float32Words(RDivInt(RAdd(RAdd(TimesSign(d, "a_pf", sign),
                                         TimesSign(d, "b_pf", sign)),
                                    TimesSign(d, "c_pf", sign)), 3))

\* update_registers_from_shelly has written the power factor fields.
PfWritten == ApplyEnded /\ {40122, 40124, 40126, 40128} \subseteq written

(***************************************************************************)
(* C16.  The power factor fields an apply step has written hold the raw    *)
(* power factors times -1 when the total active power is above 0, and      *)
(* times +1 when it is 0 or below; the average field holds the mean of     *)
(* the three signed factors (1000 W with 0.9, 0.9, 0.9 gives -0.9).        *)
(***************************************************************************)
C16_PfSignConvention ==
    PfWritten =>
        /\ data.v.total_act_power[1] > 0 => PfFieldsHold(data.v, -1)
        /\ data.v.total_act_power[1] <= 0 => PfFieldsHold(data.v, 1)
        /\ data.v = SnapA => GetValues(values, 40122, 2)
                                = Float32Words(<<-9, 10>>)

\* The apply step of the 1000 W snapshot has ended with -0.9 in the average
\* power factor field.
C16_Witness ==
    /\ PfWritten
    /\ data.v = SnapA
    /\ GetValues(values, 40122, 2) = Float32Words(<<-9, 10>>)
    /\ GetValues(values, 40124, 2) = Float32Words(<<-9, 10>>)

\* The largest numerator of a reactive power that is looked for.
MaxRoot == 2500

\* The apparent and active power keys of the reactive power fields, by the
\* address update_registers_from_shelly writes them to.
ReactivePairs ==
    {<<40114, "total_aprt_power", "total_act_power">>,
     <<40116, "a_aprt_power", "a_act_power">>,
     <<40118, "b_aprt_power", "b_act_power">>,
     <<40120, "c_aprt_power", "c_act_power">>}

\* S^2 - P^2 over the denominator (S[2] * P[2])^2.
SquareGap(S, P) == S[1] * S[1] * P[2] * P[2] - P[1] * P[1] * S[2] * S[2]

\* The two registers at addr hold the float32 of the non-negative number
\* whose square is S^2 - P^2, or of 0 when S^2 - P^2 is negative.
HoldsReactive(addr, S, P) ==
    IF SquareGap(S, P) < 0
    THEN GetValues(values, addr, 2) = <<0, 0>>
    ELSE \E q \in 0 .. MaxRoot :
            /\ q * q = SquareGap(S, P)
            /\ GetValues(values, addr, 2) = Float32Words(<<q, S[2] * P[2]>>)

(***************************************************************************)
(* C17.  An apply step on a snapshot whose powers are all numbers gets     *)
(* past the derivations and writes, to each reactive power field, the      *)
(* square root of S^2 - P^2 when that is not negative (500 VA, 300 W       *)
(* gives 400) and 0 when it is (300 VA, 500 W gives 0).                    *)
(***************************************************************************)
C17_ReactivePower ==
    (ApplyEnded /\ ~data.none /\ data.null \cap DeriveReads = {})
        => \A p \in ReactivePairs :
              /\ p[1] \in written
              /\ HoldsReactive(p[1], data.v[p[2]], data.v[p[3]])
              /\ (data.v[p[2]] = <<500, 1>> /\ data.v[p[3]] = <<300, 1>>)
                    => GetValues(values, p[1], 2) = Float32Words(<<400, 1>>)
              /\ (data.v[p[2]] = <<300, 1>> /\ data.v[p[3]] = <<-500, 1>>)
                    => GetValues(values, p[1], 2) = <<0, 0>>

\* An apply step has ended on a snapshot with an apparent power below the
\* magnitude of the active power in phase A and above it in phase B.
C17_Witness ==
    /\ ApplyEnded
    /\ data.v = SnapB
    /\ {40116, 40118} \subseteq written
    /\ GetValues(values, 40116, 2) = <<0, 0>>
    /\ GetValues(values, 40118, 2) = Float32Words(<<300, 1>>)

\* The cells a list of setValues calls writes.
CellsOf(writes) ==
    UNION {writes[i][1] .. (writes[i][1] + Len(writes[i][2]) - 1) :
              i \in DOMAIN writes}

\* The store as initialize_sunspec_registers leaves it.
HeaderStore == InitializeSunspecRegisters([idx \in CellIdx |-> 0])

\* The block as main of 3EMFroniusMeter.py leaves it.
EmHeaderBlock ==
    EmApplyWrites([idx \in 0 .. (EM_BLOCK_LEN - 1) |-> 0], EmHeaderWrites, 1)

\* The block cells the updating task has written in this cycle: one for the
\* power (context address 97), two for each counter.
EmWrittenCells ==
    UNION {IF a = 97 THEN {a + 1} ELSE {a + 1, a + 2} : a \in written}

\* No register the poller (the updating task) has written in this cycle is
\* a header register.
PollerWritesOffHeader ==
    /\ mainPc = "em_serving"
          => EmWrittenCells \cap CellsOf(EmHeaderWrites) = {}
    /\ mainPc \in {"apply", "spawn", "sleep", "serving"}
          => \A a \in written : {a, a + 1} \cap CellsOf(HeaderWrites) = {}

\* The header registers hold what the program's initialisation wrote.
HeaderKept ==
    /\ mainPc = "em_serving"
          => \A idx \in CellsOf(EmHeaderWrites) :
                 values[idx] = EmHeaderBlock[idx]
    /\ mainPc \in {"apply", "spawn", "sleep", "serving"}
          => \A a \in CellsOf(HeaderWrites) :
                 GetValues(values, a, 1) = GetValues(HeaderStore, a, 1)

(***************************************************************************)
(* C18.  Once the header is written its registers keep their values, and   *)
(* no register the poller (the updating task) writes in a cycle is a       *)
(* header register, in both programs.  (Refuted for the first part: the    *)
(* server stores a client's write to a header register, as in C10; the     *)
(* second part holds.)                                                     *)
(***************************************************************************)
C18_HeaderStatic == HeaderKept /\ PollerWritesOffHeader

\* The register pairs field k has for the dicts of the model.
SnapshotEncodings ==
    [k \in 1 .. NFIELDS |-> {PackedFields[b][k] : b \in Bodies}]

\* The fields no write request of the model addresses.
ReadOnlyFields ==
    {k \in 1 .. NFIELDS : \A w \in WriteRequests : w[1] # FieldAddr(k)}

\* Every field that no client writes and that set_float32 is not writing
\* right now holds a pair that update_registers_from_shelly wrote, and the
\* phase A voltage (never 0 in an answer) is not the initial <<0, 0>>.
Populated ==
    /\ \A k \in ReadOnlyFields :
          ~(sf.in /\ sf.addr = FieldAddr(k))
              => GetValues(values, FieldAddr(k), 2) \in SnapshotEncodings[k]
    /\ GetValues(values, 40082, 2) # <<0, 0>>

C20_RegistersOfOneSnapshot ==
    pollPc \in {"idle", "fetch"}
        => \E b \in Bodies :
              \A k \in ReadOnlyFields :
                 GetValues(values, FieldAddr(k), 2) = PackedFields[b][k]

=============================================================================
